---- MODULE Spec2Model ----
(***************************************************************************)
(* cratuity: the event-driven application engine of src/app.rs.            *)
(*                                                                         *)
(* App::await_input receives one InputEvent from the channel and applies   *)
(* the arm of `match (&mut self.mode, inpt)` that fits.  Every arm is one  *)
(* action below; the event an arm receives is its parameter.               *)
(*                                                                         *)
(* Encodings                                                               *)
(*   Option<T>   None is <<>>, Some(x) is <<x>>                            *)
(*   String      a sequence of one-character strings                       *)
(*   u32 / u64   little-endian sequences of 16-bit limbs (2 and 4 limbs),  *)
(*               so that the counters keep their width                     *)
(*   usize       a natural number; the one subtraction that can go below   *)
(*               zero (crates.len() - 1) is modelled with both outcomes a  *)
(*               build can produce                                         *)
(***************************************************************************)
EXTENDS Integers, Sequences, FiniteSets, TLC

\* ---------------------------------------------------------------- bounds
\* Longest text the query editor is driven to.
MaxBuf == 1
\* Most records a search response carries.
MaxCrates == 2
\* Page numbers explored upwards from 1 (and from 0 after a wrap).
MaxPage == 2
\* Tick counts explored upwards from 0.
MaxTicks == 1
\* Most searches outstanding at once.
MaxInFlight == 1
\* Most events waiting in the channel, where the channel is modelled.
MaxQueue == 2
\* Most searches outstanding at once, where the search client is modelled.
MaxPending == 2

\* ------------------------------------------------------- program constants
\* page: u32
U32Limbs == 2
\* AppMode::Input(String, u64)
U64Limbs == 4
\* cmp::min(*selection + 1, 4)
SortingLast == 4

\* One limb holds 16 bits.
LimbBase == 2 ^ 16
LimbMax == LimbBase - 1

\* ------------------------------------------------------------ Option<T>
None == <<>>
Some(x) == <<x>>
IsSome(o) == o # <<>>
Unwrap(o) == o[1]

\* ------------------------------------------------- fixed-width unsigned
RECURSIVE LimbsOf(_, _)
\* The `limbs`-limb encoding of a natural number n < LimbBase.
LimbsOf(n, limbs) ==
  IF limbs = 0 THEN <<>> ELSE <<n>> \o LimbsOf(0, limbs - 1)

RECURSIVE LimbsInc(_)
\* x + 1 limb by limb: [val |-> (x + 1) mod 2^w, carry |-> x + 1 >= 2^w].
LimbsInc(x) ==
  IF x = <<>> THEN [val |-> <<>>, carry |-> TRUE]
  ELSE IF Head(x) < LimbMax
         THEN [val |-> <<Head(x) + 1>> \o Tail(x), carry |-> FALSE]
         ELSE LET r == LimbsInc(Tail(x))
              IN  [val |-> <<0>> \o r.val, carry |-> r.carry]

RECURSIVE LimbsDec(_)
\* x - 1 limb by limb: [val |-> (x - 1) mod 2^w, borrow |-> x = 0].
LimbsDec(x) ==
  IF x = <<>> THEN [val |-> <<>>, borrow |-> TRUE]
  ELSE IF Head(x) > 0
         THEN [val |-> <<Head(x) - 1>> \o Tail(x), borrow |-> FALSE]
         ELSE LET r == LimbsDec(Tail(x))
              IN  [val |-> <<LimbMax>> \o r.val, borrow |-> r.borrow]

RECURSIVE LimbsLess(_, _)
\* x < y for two encodings of the same width (the top limb decides first).
LimbsLess(x, y) ==
  IF x = <<>> THEN FALSE
  ELSE \/ LimbsLess(Tail(x), Tail(y))
       \/ (Tail(x) = Tail(y) /\ Head(x) < Head(y))

U32(n) == LimbsOf(n, U32Limbs)
U64(n) == LimbsOf(n, U64Limbs)
\* u32::MAX
U32Max == [i \in 1..U32Limbs |-> LimbMax]
\* u64::MAX
U64Max == [i \in 1..U64Limbs |-> LimbMax]

\* ------------------------------------------------------------ CratesSort
\* The items SortingField::from pushes, in the order it pushes them.
SortItems ==
  <<"Relevance", "AllTimeDownload", "RecentDownload", "RecentUpdate", "NewlyAdded">>

\* items.iter().position(|item| sort.eq(item)): the 0-based index, if any.
Position(items, sort) ==
  IF \E i \in 1..Len(items) : items[i] = sort
    THEN Some((CHOOSE i \in 1..Len(items) :
                 items[i] = sort /\ \A j \in 1..(i - 1) : items[j] # sort) - 1)
    ELSE None

\* SortingField::from always opening the picker on its first item.
SortingFieldFromTop(sort) ==
  [selection |-> 0, items |-> SortItems]

\* impl From<&CratesSort> for SortingField (strs, the items' labels, is
\* derived from items and read by the widget only).
SortingFieldFrom(sort) ==
  [selection |-> Unwrap(Position(SortItems, sort)), items |-> SortItems]

\* --------------------------------------------------------------- AppMode
Normal == [tag |-> "Normal"]
Input(msg, ticks) == [tag |-> "Input", msg |-> msg, ticks |-> ticks]
Sorting(field) == [tag |-> "Sorting", field |-> field]

\* ------------------------------------------------------------ InputEvent
\* Every command letter in both cases, and one letter bound to no command.
Chars ==
  {"f", "F", "q", "Q", "n", "N", "p", "P", "j", "J", "k", "K",
   "s", "S", "c", "C", "x"}

\* The letters typed into the query editor: one that is a command in the
\* other modes and one that is not.
TypedChars == {"q", "x"}

\* The letters pressed while the sort picker is open: its own commands, a
\* command of Normal mode and a letter bound to no command.
PickerChars == {"j", "J", "k", "K", "q", "x"}

Char(c) == [kind |-> "Char", c |-> c]
Esc == [kind |-> "Esc"]
Enter == [kind |-> "Enter"]
Backspace == [kind |-> "Backspace"]
Tick == [kind |-> "Tick"]
Results(results) == [kind |-> "Results", results |-> results]

\* CrateSearchResponse { crates }: the records of one page, here their ranks.
Response(n) == [crates |-> [i \in 1..n |-> i]]
Responses == {Response(n) : n \in 0..MaxCrates}

ResultEvents == {Results(r) : r \in Responses}

VARIABLES
  mode,        \* App.mode
  inpt,        \* App.inpt: the committed query
  page,        \* App.page
  sort,        \* App.sort
  crates,      \* App.crates
  selection,   \* App.selection
  quit,        \* App.quit
  received,    \* what the latest await_input matched on: (mode, event)
  copies,      \* the clipboard set_contents calls of the latest await_input
  searches,    \* the search_sorted calls of the latest await_input
  inflight,    \* searches whose Results event has not been received yet
  panicked,    \* the message of the panic that ended the main thread, if any
  pc,          \* main: the statement of main.rs it is at
  term,        \* the terminal: raw mode, alternate screen, mouse capture
  queue,       \* the channel: the events sent and not yet received
  pending,     \* the requests the search client is still working on
  sent,        \* the ticket of the event sent last
  handled      \* the ticket of the event received last

session == <<mode, inpt, page, sort, crates, selection, quit>>
\* What lies around the engine: main's control flow, the terminal and the
\* channel with its producers.
world == <<pc, term, queue, pending, sent, handled>>
vars == <<mode, inpt, page, sort, crates, selection, quit, received, copies,
          searches, inflight, panicked, pc, term, queue, pending, sent,
          handled>>

\* The main loop calls await_input until it sees quit; a panic ends it too.
Running == ~quit /\ panicked = None /\ pc = "await_input"

\* enable_raw_mode and execute!(EnterAlternateScreen, EnableMouseCapture)
\* have run.
TermEntered == [raw |-> TRUE, alt |-> TRUE, mouse |-> TRUE]
\* The terminal as the shell left it.
TermPlain == [raw |-> FALSE, alt |-> FALSE, mouse |-> FALSE]

\* main is in its loop, waiting in await_input; nothing is in the channel.
InLoop ==
  /\ pc = "await_input"
  /\ term = TermEntered
  /\ queue = <<>>
  /\ pending = <<>>
  /\ sent = 0
  /\ handled = 0

\* ------------------------------------------------------------- App::new
\* App::new opening in Normal mode.
AppNewInNormal ==
  /\ mode = Normal
  /\ inpt = Some(<<>>)
  /\ page = U32(1)
  /\ sort = "Relevance"
  /\ crates = None
  /\ selection = None
  /\ quit = FALSE
  /\ received = None
  /\ copies = <<>>
  /\ searches = <<>>
  /\ inflight = 0
  /\ panicked = None

AppNew ==
  /\ mode = Input(<<>>, U64(0))
  /\ inpt = Some(<<>>)
  /\ page = U32(1)
  /\ sort = "Relevance"
  /\ crates = None
  /\ selection = None
  /\ quit = FALSE
  /\ received = None
  /\ copies = <<>>
  /\ searches = <<>>
  /\ inflight = 0
  /\ panicked = None

\* The session as App::new leaves it, main about to receive its first event.
Init == AppNew /\ InLoop

\* ------------------------------------------------------------- helpers
Min(a, b) == IF a < b THEN a ELSE b

\* self.crates.as_ref().map(|c| c.crates.len()).unwrap_or(0)
CratesLen(c) == IF IsSome(c) THEN Len(Unwrap(c).crates) ELSE 0

\* LastIndex without its `- 1`.
LastIndexIsLen(c) == IF IsSome(c) THEN Len(Unwrap(c).crates) ELSE 0

\* self.crates.as_ref().map(|resp| &resp.crates).map(|crates| crates.len() - 1)
\*     .unwrap_or(0); below zero where the usize subtraction underflows.
LastIndex(c) == IF IsSome(c) THEN Len(Unwrap(c).crates) - 1 ELSE 0

\* The selection every Results arm computes from the response it stored.
ResultsSelection(results) ==
  IF Len(results.crates) > 0 THEN Some(0) ELSE None

\* SaturatingSub1 as a plain subtraction.
PlainSub1(n) == n - 1

\* selection.saturating_sub(1)
SaturatingSub1(n) == IF n > 0 THEN n - 1 ELSE 0

\* The pages and tick counts the model drives the counters through: the
\* first few, and the last two before the counter's width is exhausted.
PageExplored(p) ==
  ~LimbsLess(U32(MaxPage), p) \/ ~LimbsLess(p, LimbsDec(U32Max).val)
TicksInWindow(t) ==
  LimbsLess(t, U64(MaxTicks)) \/ ~LimbsLess(t, LimbsDec(U64Max).val)

\* The request of App::do_search: search_sorted(inpt.unwrap(), page, &sort).
Request(i, p, s) == [query |-> Unwrap(i), page |-> p, sort |-> s]

\* What `match &mut self.mode { .. => match inpt { .. } }` branches on.
Matched(tag, e) == [mode |-> tag, inpt |-> e]

\* recv_timeout returned Ok(e) and the match is entered.
Recv(e) ==
  /\ Running
  /\ received' = Some(Matched(mode.tag, e))

\* The arm returns without having called search_sorted.
NoSearch ==
  /\ searches' = <<>>
  /\ UNCHANGED <<inflight, panicked>>

\* The arm returns without any effect outside the session state.
Quiet == NoSearch /\ copies' = <<>>

\* App::do_search, called with the fields as the arm has set them.
do_search(i, p, s) ==
  /\ copies' = <<>>
  /\ IF IsSome(i)
       THEN /\ searches' = <<Request(i, p, s)>>
            /\ inflight' = inflight + 1
            /\ UNCHANGED panicked
       ELSE /\ searches' = <<>>
            /\ panicked' = Some("unwrap on None")
            /\ UNCHANGED inflight

\* A panic on the main thread: the loop never runs again.
Panic(msg) ==
  /\ panicked' = Some(msg)
  /\ searches' = <<>>
  /\ copies' = <<>>
  /\ UNCHANGED <<session, inflight>>

\* A Results arm: the event leaves the channel, its search is over.
\* (All three arms, one per mode, have this body.)
StoreResults(e) ==
  /\ crates' = Some(e.results)
  /\ selection' = ResultsSelection(e.results)
  /\ searches' = <<>>
  /\ copies' = <<>>
  /\ inflight' = inflight - 1
  /\ UNCHANGED <<mode, inpt, page, sort, quit, panicked>>

\* ------------------------------------------- App::await_input, Normal mode
IsChar(e, cs) == e.kind = "Char" /\ e.c \in cs

NormalF(e) ==
  /\ mode.tag = "Normal" /\ IsChar(e, {"f", "F"}) /\ Recv(e)
  /\ mode' = Input(<<>>, U64(0))
  /\ Quiet
  /\ UNCHANGED <<inpt, page, sort, crates, selection, quit>>

NormalQ(e) ==
  /\ mode.tag = "Normal" /\ IsChar(e, {"q", "Q"}) /\ Recv(e)
  /\ quit' = TRUE
  /\ Quiet
  /\ UNCHANGED <<mode, inpt, page, sort, crates, selection>>

\* self.page += 1 at u32::MAX panics where overflow checks are compiled in
\* and wraps to 0 where they are not.
NormalN(e) ==
  /\ mode.tag = "Normal" /\ IsChar(e, {"n", "N"}) /\ Recv(e)
  /\ IF CratesLen(crates) > 0
       THEN /\ PageExplored(LimbsInc(page).val)
            /\ LET r == LimbsInc(page)
               IN  \/ /\ r.carry
                      /\ Panic("attempt to add with overflow")
                   \/ /\ page' = r.val
                      /\ do_search(inpt, r.val, sort)
                      /\ UNCHANGED <<mode, inpt, sort, crates, selection, quit>>
       ELSE /\ Quiet
            /\ UNCHANGED session

\* NormalP with `self.page > 0` for its test.
NormalPFromOne(e) ==
  /\ mode.tag = "Normal" /\ IsChar(e, {"p", "P"}) /\ Recv(e)
  /\ IF LimbsLess(U32(0), page)
       THEN /\ PageExplored(LimbsDec(page).val)
            /\ page' = LimbsDec(page).val
            /\ do_search(inpt, LimbsDec(page).val, sort)
            /\ UNCHANGED <<mode, inpt, sort, crates, selection, quit>>
       ELSE /\ Quiet
            /\ UNCHANGED session

NormalP(e) ==
  /\ mode.tag = "Normal" /\ IsChar(e, {"p", "P"}) /\ Recv(e)
  /\ IF LimbsLess(U32(1), page)
       THEN /\ PageExplored(LimbsDec(page).val)
            /\ page' = LimbsDec(page).val
            /\ do_search(inpt, LimbsDec(page).val, sort)
            /\ UNCHANGED <<mode, inpt, sort, crates, selection, quit>>
       ELSE /\ Quiet
            /\ UNCHANGED session

\* crates.len() - 1 on an empty vector panics where overflow checks are
\* compiled in and wraps to usize::MAX where they are not, and then
\* cmp::min(selection + 1, usize::MAX) is selection + 1.
NormalJ(e) ==
  /\ mode.tag = "Normal" /\ IsChar(e, {"j", "J"}) /\ Recv(e)
  /\ IF IsSome(selection)
       THEN LET last == LastIndex(crates)
            IN  IF last < 0
                  THEN \/ Panic("attempt to subtract with overflow")
                       \/ /\ selection' = Some(Unwrap(selection) + 1)
                          /\ Quiet
                          /\ UNCHANGED <<mode, inpt, page, sort, crates, quit>>
                  ELSE /\ selection' = Some(Min(Unwrap(selection) + 1, last))
                       /\ Quiet
                       /\ UNCHANGED <<mode, inpt, page, sort, crates, quit>>
       ELSE /\ Quiet
            /\ UNCHANGED session

NormalK(e) ==
  /\ mode.tag = "Normal" /\ IsChar(e, {"k", "K"}) /\ Recv(e)
  /\ IF IsSome(selection) /\ Unwrap(selection) > 0
       THEN selection' = Some(Unwrap(selection) - 1)
       ELSE UNCHANGED selection
  /\ Quiet
  /\ UNCHANGED <<mode, inpt, page, sort, crates, quit>>

NormalS(e) ==
  /\ mode.tag = "Normal" /\ IsChar(e, {"s", "S"}) /\ Recv(e)
  /\ IF IsSome(Position(SortItems, sort))
       THEN /\ mode' = Sorting(SortingFieldFrom(sort))
            /\ Quiet
            /\ UNCHANGED <<inpt, page, sort, crates, selection, quit>>
       ELSE Panic("unwrap on None")

\* copy_selection (built without the no-copy feature): the clipboard is
\* opened and written with unwrap(), so either can panic.
NormalC(e) ==
  /\ mode.tag = "Normal" /\ IsChar(e, {"c", "C"}) /\ Recv(e)
  /\ IF IsSome(selection) /\ IsSome(crates)
       THEN \/ Panic("unwrap on Err")
            \/ /\ copies' =
                    IF Unwrap(selection) < Len(Unwrap(crates).crates)
                      THEN <<Unwrap(crates).crates[Unwrap(selection) + 1]>>
                      ELSE <<>>
               /\ NoSearch
               /\ UNCHANGED session
       ELSE /\ Quiet
            /\ UNCHANGED session

NormalResults(e) ==
  /\ mode.tag = "Normal" /\ e.kind = "Results" /\ Recv(e)
  /\ StoreResults(e)

\* NormalOther with Escape bound to quit.
NormalOtherEscQuits(e) ==
  /\ mode.tag = "Normal" /\ Recv(e)
  /\ \/ e.kind \in {"Esc", "Enter", "Backspace", "Tick"}
     \/ /\ e.kind = "Char"
        /\ e.c \notin {"f", "F", "q", "Q", "n", "N", "p", "P", "j", "J",
                       "k", "K", "s", "S", "c", "C"}
  /\ quit' = (e.kind = "Esc")
  /\ Quiet
  /\ UNCHANGED <<mode, inpt, page, sort, crates, selection>>

\* `_ => {}`: every other character and every other event.
NormalOther(e) ==
  /\ mode.tag = "Normal" /\ Recv(e)
  /\ \/ e.kind \in {"Esc", "Enter", "Backspace", "Tick"}
     \/ /\ e.kind = "Char"
        /\ e.c \notin {"f", "F", "q", "Q", "n", "N", "p", "P", "j", "J",
                       "k", "K", "s", "S", "c", "C"}
  /\ Quiet
  /\ UNCHANGED session

\* -------------------------------------------- App::await_input, Input mode
\* InputEsc committing the buffer as the query on its way out.
InputEscKeepsText(e) ==
  /\ mode.tag = "Input" /\ e.kind = "Esc" /\ Recv(e)
  /\ mode' = Normal
  /\ inpt' = Some(mode.msg)
  /\ Quiet
  /\ UNCHANGED <<page, sort, crates, selection, quit>>

InputEsc(e) ==
  /\ mode.tag = "Input" /\ e.kind = "Esc" /\ Recv(e)
  /\ mode' = Normal
  /\ Quiet
  /\ UNCHANGED <<inpt, page, sort, crates, selection, quit>>

\* InputEnter without `self.page = 1`.
InputEnterKeepsPage(e) ==
  /\ mode.tag = "Input" /\ e.kind = "Enter" /\ Recv(e)
  /\ inpt' = Some(mode.msg)
  /\ do_search(Some(mode.msg), page, sort)
  /\ mode' = Normal
  /\ UNCHANGED <<page, sort, crates, selection, quit>>

InputEnter(e) ==
  /\ mode.tag = "Input" /\ e.kind = "Enter" /\ Recv(e)
  /\ page' = U32(1)
  /\ inpt' = Some(mode.msg)
  /\ do_search(Some(mode.msg), U32(1), sort)
  /\ mode' = Normal
  /\ UNCHANGED <<sort, crates, selection, quit>>

\* msg.pop()
InputBackspace(e) ==
  /\ mode.tag = "Input" /\ e.kind = "Backspace" /\ Recv(e)
  /\ mode' = Input(IF mode.msg = <<>> THEN <<>>
                   ELSE SubSeq(mode.msg, 1, Len(mode.msg) - 1), mode.ticks)
  /\ Quiet
  /\ UNCHANGED <<inpt, page, sort, crates, selection, quit>>

\* msg.push(c), for the letters and the lengths the model types.
InputChar(e) ==
  /\ mode.tag = "Input" /\ e.kind = "Char" /\ Recv(e)
  /\ Len(mode.msg) < MaxBuf
  /\ mode' = Input(Append(mode.msg, e.c), mode.ticks)
  /\ Quiet
  /\ UNCHANGED <<inpt, page, sort, crates, selection, quit>>

\* ticks.wrapping_add(1)
InputTick(e) ==
  /\ mode.tag = "Input" /\ e.kind = "Tick" /\ Recv(e)
  /\ TicksInWindow(mode.ticks)
  /\ mode' = Input(mode.msg, LimbsInc(mode.ticks).val)
  /\ Quiet
  /\ UNCHANGED <<inpt, page, sort, crates, selection, quit>>

\* InputResults as a `_ => {}` arm: the event is received and dropped.
InputResultsDropped(e) ==
  /\ mode.tag = "Input" /\ e.kind = "Results" /\ Recv(e)
  /\ searches' = <<>>
  /\ copies' = <<>>
  /\ inflight' = inflight - 1
  /\ UNCHANGED <<session, panicked>>

InputResults(e) ==
  /\ mode.tag = "Input" /\ e.kind = "Results" /\ Recv(e)
  /\ StoreResults(e)

\* ------------------------------------------ App::await_input, Sorting mode
SortingEsc(e) ==
  /\ mode.tag = "Sorting" /\ e.kind = "Esc" /\ Recv(e)
  /\ mode' = Normal
  /\ Quiet
  /\ UNCHANGED <<inpt, page, sort, crates, selection, quit>>

\* SortingEnter calling do_search before it stores the chosen order.
SortingEnterSearchesFirst(e) ==
  /\ mode.tag = "Sorting" /\ e.kind = "Enter" /\ Recv(e)
  /\ IF mode.field.selection < Len(mode.field.items)
       THEN /\ sort' = mode.field.items[mode.field.selection + 1]
            /\ page' = U32(1)
            /\ mode' = Normal
            /\ do_search(inpt, page, sort)
            /\ UNCHANGED <<inpt, crates, selection, quit>>
       ELSE Panic("index out of bounds")

\* items[*selection] panics when the index is out of bounds.
SortingEnter(e) ==
  /\ mode.tag = "Sorting" /\ e.kind = "Enter" /\ Recv(e)
  /\ IF mode.field.selection < Len(mode.field.items)
       THEN /\ sort' = mode.field.items[mode.field.selection + 1]
            /\ page' = U32(1)
            /\ mode' = Normal
            /\ do_search(inpt, U32(1), mode.field.items[mode.field.selection + 1])
            /\ UNCHANGED <<inpt, crates, selection, quit>>
       ELSE Panic("index out of bounds")

SortingK(e) ==
  /\ mode.tag = "Sorting" /\ IsChar(e, {"k", "K"}) /\ Recv(e)
  /\ mode' = Sorting([mode.field EXCEPT
                        !.selection = SaturatingSub1(mode.field.selection)])
  /\ Quiet
  /\ UNCHANGED <<inpt, page, sort, crates, selection, quit>>

\* SortingJ without the cmp::min.
SortingJUnclamped(e) ==
  /\ mode.tag = "Sorting" /\ IsChar(e, {"j", "J"}) /\ Recv(e)
  /\ mode' = Sorting([mode.field EXCEPT !.selection = mode.field.selection + 1])
  /\ Quiet
  /\ UNCHANGED <<inpt, page, sort, crates, selection, quit>>

SortingJ(e) ==
  /\ mode.tag = "Sorting" /\ IsChar(e, {"j", "J"}) /\ Recv(e)
  /\ mode' = Sorting([mode.field EXCEPT
                        !.selection = Min(mode.field.selection + 1, SortingLast)])
  /\ Quiet
  /\ UNCHANGED <<inpt, page, sort, crates, selection, quit>>

SortingResults(e) ==
  /\ mode.tag = "Sorting" /\ e.kind = "Results" /\ Recv(e)
  /\ StoreResults(e)

\* `_ => {}`: every other character and every other event.
SortingOther(e) ==
  /\ mode.tag = "Sorting" /\ Recv(e)
  /\ \/ e.kind \in {"Backspace", "Tick"}
     \/ e.kind = "Char" /\ e.c \notin {"k", "K", "j", "J"}
  /\ Quiet
  /\ UNCHANGED session

\* recv_timeout returned Err: no event within the second.
RecvTimeout ==
  /\ Running
  /\ received' = None
  /\ Quiet
  /\ UNCHANGED session

\* ------------------------------------------------------ the event channel
\* The letters the user presses in each mode.
Pressed ==
  CASE mode.tag = "Normal" -> Chars
    [] mode.tag = "Input" -> TypedChars
    [] mode.tag = "Sorting" -> PickerChars

\* What the channel can hand to await_input: a key event of the Input
\* Monitor, or the Results event of a search still outstanding.
Delivered ==
  {Char(c) : c \in Pressed} \cup {Esc, Enter, Backspace, Tick}
    \cup (IF inflight > 0 THEN ResultEvents ELSE {})

\* A step of the engine with nothing around it modelled: the events come
\* straight from Delivered, and no more than MaxInFlight searches are left
\* outstanding.
EngineOnly == inflight' <= MaxInFlight /\ UNCHANGED world

Next ==
  \/ \E e \in Delivered : NormalF(e) /\ EngineOnly
  \/ \E e \in Delivered : NormalQ(e) /\ EngineOnly
  \/ \E e \in Delivered : NormalN(e) /\ EngineOnly
  \/ \E e \in Delivered : NormalP(e) /\ EngineOnly
  \/ \E e \in Delivered : NormalJ(e) /\ EngineOnly
  \/ \E e \in Delivered : NormalK(e) /\ EngineOnly
  \/ \E e \in Delivered : NormalS(e) /\ EngineOnly
  \/ \E e \in Delivered : NormalC(e) /\ EngineOnly
  \/ \E e \in Delivered : NormalResults(e) /\ EngineOnly
  \/ \E e \in Delivered : NormalOther(e) /\ EngineOnly
  \/ \E e \in Delivered : InputEsc(e) /\ EngineOnly
  \/ \E e \in Delivered : InputEnter(e) /\ EngineOnly
  \/ \E e \in Delivered : InputBackspace(e) /\ EngineOnly
  \/ \E e \in Delivered : InputChar(e) /\ EngineOnly
  \/ \E e \in Delivered : InputTick(e) /\ EngineOnly
  \/ \E e \in Delivered : InputResults(e) /\ EngineOnly
  \/ \E e \in Delivered : SortingEsc(e) /\ EngineOnly
  \/ \E e \in Delivered : SortingEnter(e) /\ EngineOnly
  \/ \E e \in Delivered : SortingK(e) /\ EngineOnly
  \/ \E e \in Delivered : SortingJ(e) /\ EngineOnly
  \/ \E e \in Delivered : SortingResults(e) /\ EngineOnly
  \/ \E e \in Delivered : SortingOther(e) /\ EngineOnly
  \/ RecvTimeout /\ EngineOnly

Spec == Init /\ [][Next]_vars

\* ----------------------------------------------- a long run of 'n' presses
\* The session after the empty query was searched and 'n' was pressed
\* u32::MAX - 2 times, a non-empty page of results having arrived after each
\* search: NormalN adds one to the page from every page below u32::MAX, and
\* NormalResults restores what it needs, so the run is one the program can
\* make; it is only too long to be walked one press at a time.
InitLongRun ==
  /\ mode = Normal
  /\ inpt = Some(<<>>)
  /\ page = LimbsDec(U32Max).val
  /\ sort = "Relevance"
  /\ crates = Some(Response(MaxCrates))
  /\ selection = Some(0)
  /\ quit = FALSE
  /\ received = Some(Matched("Normal", Results(Response(MaxCrates))))
  /\ copies = <<>>
  /\ searches = <<>>
  /\ inflight = 0
  /\ panicked = None
  /\ InLoop

SpecLongRun == InitLongRun /\ [][Next]_vars

\* --------------------------------------------- every key in the wrong mode
\* The letters pressed where the keys are tried in every mode: in the editor
\* every command letter of the other modes, in the picker and in Normal mode
\* letters that are no command there.  (Enter and Tick are left to the other
\* specifications while the editor is open: the searches of this one are
\* those of the picker.)
KeysPressed ==
  CASE mode.tag = "Normal" -> {"f", "n", "j", "s", "x"}
    [] mode.tag = "Input" -> {"f", "q", "n", "p", "j", "k", "s", "c", "x"}
    [] mode.tag = "Sorting" -> {"j", "k", "q", "x"}

KeysDelivered ==
  {Char(c) : c \in KeysPressed} \cup {Esc, Backspace}
    \cup (IF mode.tag = "Input" THEN {} ELSE {Enter, Tick})
    \cup (IF inflight > 0 THEN ResultEvents ELSE {})

KeysNext ==
  \/ \E e \in KeysDelivered : NormalF(e) /\ EngineOnly
  \/ \E e \in KeysDelivered : NormalN(e) /\ EngineOnly
  \/ \E e \in KeysDelivered : NormalJ(e) /\ EngineOnly
  \/ \E e \in KeysDelivered : NormalS(e) /\ EngineOnly
  \/ \E e \in KeysDelivered : NormalResults(e) /\ EngineOnly
  \/ \E e \in KeysDelivered : NormalOther(e) /\ EngineOnly
  \/ \E e \in KeysDelivered : InputEsc(e) /\ EngineOnly
  \/ \E e \in KeysDelivered : InputBackspace(e) /\ EngineOnly
  \/ \E e \in KeysDelivered : InputChar(e) /\ EngineOnly
  \/ \E e \in KeysDelivered : InputResults(e) /\ EngineOnly
  \/ \E e \in KeysDelivered : SortingEsc(e) /\ EngineOnly
  \/ \E e \in KeysDelivered : SortingEnter(e) /\ EngineOnly
  \/ \E e \in KeysDelivered : SortingK(e) /\ EngineOnly
  \/ \E e \in KeysDelivered : SortingJ(e) /\ EngineOnly
  \/ \E e \in KeysDelivered : SortingResults(e) /\ EngineOnly
  \/ \E e \in KeysDelivered : SortingOther(e) /\ EngineOnly
  \/ RecvTimeout /\ EngineOnly

SpecKeys == Init /\ [][KeysNext]_vars

\* ------------------------------------------------------------ main (main.rs)
\* `match &mut self.mode { .. }` as a whole: the arm that fits e.
await_input(e) ==
  \/ NormalF(e) \/ NormalQ(e) \/ NormalN(e) \/ NormalP(e) \/ NormalJ(e)
  \/ NormalK(e) \/ NormalS(e) \/ NormalC(e) \/ NormalResults(e)
  \/ NormalOther(e)
  \/ InputEsc(e) \/ InputEnter(e) \/ InputBackspace(e) \/ InputChar(e)
  \/ InputTick(e) \/ InputResults(e)
  \/ SortingEsc(e) \/ SortingEnter(e) \/ SortingK(e) \/ SortingJ(e)
  \/ SortingResults(e) \/ SortingOther(e)

\* A step of main outside await_input: the App is not touched.
MainOnly ==
  UNCHANGED <<session, received, copies, searches, inflight, queue, pending,
              sent, handled>>

\* `?` on an Err: main returns it, running nothing of what follows.
ReturnErr == pc' = "returned_err" /\ UNCHANGED panicked

\* enable_raw_mode()?
EnableRawMode ==
  /\ pc = "enable_raw_mode"
  /\ \/ /\ term' = [term EXCEPT !.raw = TRUE]
        /\ pc' = "enter_screen"
        /\ UNCHANGED panicked
     \/ ReturnErr /\ UNCHANGED term
  /\ MainOnly

\* execute!(stdout, EnterAlternateScreen, EnableMouseCapture)?: the commands
\* are written in turn, and the first error ends the sequence.
EnterScreen ==
  /\ pc = "enter_screen"
  /\ \/ /\ term' = [term EXCEPT !.alt = TRUE, !.mouse = TRUE]
        /\ pc' = "new_terminal"
        /\ UNCHANGED panicked
     \/ ReturnErr /\ UNCHANGED term
     \/ ReturnErr /\ term' = [term EXCEPT !.alt = TRUE]
  /\ MainOnly

\* Terminal::new(backend)?
NewTerminal ==
  /\ pc = "new_terminal"
  /\ \/ pc' = "clear" /\ UNCHANGED panicked
     \/ ReturnErr
  /\ UNCHANGED term
  /\ MainOnly

\* terminal.clear()?
Clear ==
  /\ pc = "clear"
  /\ \/ pc' = "draw" /\ UNCHANGED panicked
     \/ ReturnErr
  /\ UNCHANGED term
  /\ MainOnly

\* terminal.draw(|f| app.draw(f))?
Draw ==
  /\ pc = "draw"
  /\ \/ pc' = "await_input" /\ UNCHANGED panicked
     \/ ReturnErr
  /\ UNCHANGED term
  /\ MainOnly

\* The letters pressed while main runs.
MainPressed ==
  CASE mode.tag = "Normal" -> {"f", "q", "Q", "n", "s", "x"}
    [] mode.tag = "Input" -> {"q"}
    [] mode.tag = "Sorting" -> {"j", "q"}

MainDelivered ==
  {Char(c) : c \in MainPressed} \cup {Esc, Enter}
    \cup (IF inflight > 0 THEN ResultEvents ELSE {})

\* The loop never looking at app.quit.
AwaitWithoutBreak ==
  /\ \/ \E e \in MainDelivered : await_input(e)
     \/ RecvTimeout
  /\ inflight' <= MaxInFlight
  /\ pc' = IF IsSome(panicked') THEN "panicked" ELSE "draw"
  /\ UNCHANGED <<term, queue, pending, sent, handled>>

\* app.await_input(); if app.quit { break; } -- a panic inside unwinds main.
Await ==
  /\ \/ \E e \in MainDelivered : await_input(e)
     \/ RecvTimeout
  /\ inflight' <= MaxInFlight
  /\ pc' = IF IsSome(panicked') THEN "panicked"
           ELSE IF quit' THEN "disable_raw_mode" ELSE "draw"
  /\ UNCHANGED <<term, queue, pending, sent, handled>>

\* disable_raw_mode()?
DisableRawMode ==
  /\ pc = "disable_raw_mode"
  /\ \/ /\ term' = [term EXCEPT !.raw = FALSE]
        /\ pc' = "leave_screen"
        /\ UNCHANGED panicked
     \/ ReturnErr /\ UNCHANGED term
  /\ MainOnly

\* execute!(io::stdout(), LeaveAlternateScreen, DisableMouseCapture)?
LeaveScreen ==
  /\ pc = "leave_screen"
  /\ \/ /\ term' = [term EXCEPT !.alt = FALSE, !.mouse = FALSE]
        /\ pc' = "final_clear"
        /\ UNCHANGED panicked
     \/ ReturnErr /\ UNCHANGED term
     \/ ReturnErr /\ term' = [term EXCEPT !.alt = FALSE]
  /\ MainOnly

\* terminal.clear().unwrap(); Ok(())
FinalClear ==
  /\ pc = "final_clear"
  /\ \/ pc' = "returned_ok" /\ UNCHANGED panicked
     \/ pc' = "panicked" /\ panicked' = Some("unwrap on Err")
  /\ UNCHANGED term
  /\ MainOnly

MainNext ==
  \/ EnableRawMode
  \/ EnterScreen
  \/ NewTerminal
  \/ Clear
  \/ Draw
  \/ Await
  \/ DisableRawMode
  \/ LeaveScreen
  \/ FinalClear

\* main after App::new(rx), the terminal still as the shell left it.
InitMain ==
  /\ AppNew
  /\ pc = "enable_raw_mode"
  /\ term = TermPlain
  /\ queue = <<>>
  /\ pending = <<>>
  /\ sent = 0
  /\ handled = 0

SpecMain == InitMain /\ [][MainNext]_vars

\* ------------------------------------------- the channel and its producers
\* Tickets number the events in the order they are sent, around a ring long
\* enough to tell every event in the channel from the one received last.
TicketRing == MaxQueue + 1
NextTicket(n) == (n + 1) % TicketRing

\* tx.send(e): the event joins the channel behind those already there.
Send(e) ==
  /\ Len(queue) < MaxQueue
  /\ sent' = NextTicket(sent)
  /\ queue' = Append(queue, [ev |-> e, n |-> NextTicket(sent)])

\* The keys pressed while the channel is watched; they belong to the mode on
\* the screen when they are pressed, and are received in whatever mode the
\* events before them have left.
ChannelKeys ==
  CASE mode.tag = "Normal" -> {Char("n"), Char("p")}
    [] mode.tag = "Input" -> {Enter}
    [] mode.tag = "Sorting" -> {Esc}

\* InputMonitor::monitor: a key was read and its event sent.  (A poll that
\* times out sends nothing.)
MonitorSend(k) ==
  /\ pc \in {"draw", "await_input"}
  /\ Send(k)
  /\ UNCHANGED <<session, received, copies, searches, inflight, panicked,
                 pc, term, pending, handled>>

\* The response to request `req` with n records; `request` is not a field
\* of CrateSearchResponse: it is kept to tell which search a result set
\* answers.
Answer(req, n) == [crates |-> [i \in 1..n |-> i], request |-> req]

\* The pages the registry answers with: an empty one or a full one.
PageSizes == {0, MaxCrates}

\* The search client: the i-th outstanding request completes and its one
\* Results event is sent.
ClientPost(i, n) ==
  /\ pc \in {"draw", "await_input"}
  /\ Send(Results(Answer(pending[i], n)))
  /\ pending' = [j \in 1..(Len(pending) - 1) |->
                   IF j < i THEN pending[j] ELSE pending[j + 1]]
  /\ UNCHANGED <<session, received, copies, searches, inflight, panicked,
                 pc, term, handled>>

\* Receive taking the event sent last.
ReceiveNewest ==
  /\ queue # <<>>
  /\ await_input(queue[Len(queue)].ev)
  /\ inflight' <= MaxPending
  /\ queue' = SubSeq(queue, 1, Len(queue) - 1)
  /\ handled' = queue[Len(queue)].n
  /\ pending' = pending \o searches'
  /\ pc' = IF IsSome(panicked') THEN "panicked"
           ELSE IF quit' THEN "disable_raw_mode" ELSE "draw"
  /\ UNCHANGED <<term, sent>>

\* Receive leaving aside a result set that answers another request than the
\* session's current one.
ReceiveCurrentOnly ==
  /\ queue # <<>>
  /\ IF /\ Head(queue).ev.kind = "Results"
        /\ Head(queue).ev.results.request # Request(inpt, page, sort)
       THEN /\ received' = Some(Matched(mode.tag, Head(queue).ev))
            /\ searches' = <<>> /\ copies' = <<>>
            /\ inflight' = inflight - 1
            /\ UNCHANGED <<session, panicked>>
       ELSE await_input(Head(queue).ev)
  /\ inflight' <= MaxPending
  /\ queue' = Tail(queue)
  /\ handled' = Head(queue).n
  /\ pending' = pending \o searches'
  /\ pc' = IF IsSome(panicked') THEN "panicked"
           ELSE IF quit' THEN "disable_raw_mode" ELSE "draw"
  /\ UNCHANGED <<term, sent>>

\* app.await_input() with an event waiting: recv_timeout returns the event
\* at the head of the channel, the arm that fits runs, and the request of a
\* do_search goes to the search client; then `if app.quit { break; }`.
Receive ==
  /\ queue # <<>>
  /\ await_input(Head(queue).ev)
  /\ inflight' <= MaxPending
  /\ queue' = Tail(queue)
  /\ handled' = Head(queue).n
  /\ pending' = pending \o searches'
  /\ pc' = IF IsSome(panicked') THEN "panicked"
           ELSE IF quit' THEN "disable_raw_mode" ELSE "draw"
  /\ UNCHANGED <<term, sent>>

\* app.await_input() with the channel empty for a second.
Timeout ==
  /\ queue = <<>>
  /\ RecvTimeout
  /\ pc' = "draw"
  /\ UNCHANGED <<term, queue, pending, sent, handled>>

\* The terminal takes every frame: no draw fails.
Drawn == pc' = "await_input"

ChannelNext ==
  \/ \E k \in ChannelKeys : MonitorSend(k)
  \/ \E i \in 1..Len(pending), n \in PageSizes : ClientPost(i, n)
  \/ Draw /\ Drawn
  \/ Receive
  \/ Timeout

\* main entering its loop, the terminal set up and the channel empty.
InitChannel ==
  /\ AppNew
  /\ pc = "draw"
  /\ term = TermEntered
  /\ queue = <<>>
  /\ pending = <<>>
  /\ sent = 0
  /\ handled = 0

SpecChannel == InitChannel /\ [][ChannelNext]_vars

\* main keeps running its loop, and every search comes to an end; nothing
\* makes the user press a key.
ChannelFairness ==
  /\ WF_vars(Draw /\ Drawn)
  /\ WF_vars(Receive)
  /\ WF_vars(Timeout)
  /\ WF_vars(\E i \in 1..Len(pending), n \in PageSizes : ClientPost(i, n))

SpecChannelLive == SpecChannel /\ ChannelFairness

\* ================================================================ claims
\* The latest await_input received event e while the mode was `tag`.
Got(tag, e) == received = Some(Matched(tag, e))

\* The letter events of one command.
Press(cs) == {Char(c) : c \in cs}

\* C1: selection is present exactly when a non-empty result set is held, and
\* then 0 <= selection < len(results); the 'j' arm never subtracts 1 from the
\* length of an empty result set.
C1_SelectionWithinResults ==
  /\ IsSome(selection) <=> (IsSome(crates) /\ Len(Unwrap(crates).crates) > 0)
  /\ IsSome(selection) =>
       /\ 0 <= Unwrap(selection)
       /\ Unwrap(selection) < Len(Unwrap(crates).crates)
  /\ panicked # Some("attempt to subtract with overflow")

\* 'j' has moved the selection to the last of two records.
C1_Witness ==
  /\ \E e \in Press({"j", "J"}) : Got("Normal", e)
  /\ IsSome(crates) /\ Len(Unwrap(crates).crates) = 2
  /\ selection = Some(1)

\* C2: page >= 1 in every reachable state, also after an arbitrarily long
\* run of 'n' presses on non-empty results.
C2_PageAtLeastOne == LimbsLess(U32(0), page)

\* C3: Enter in Input mode with buffer b sets the query to b and the page to
\* 1, keeps the sort order, issues exactly one search request carrying
\* (b, 1, sort), and leaves the mode Normal.
C3_InputEnterCommits ==
  [][received' = Some(Matched("Input", Enter)) =>
       /\ inpt' = Some(mode.msg)
       /\ page' = U32(1)
       /\ sort' = sort
       /\ searches' = <<[query |-> mode.msg, page |-> U32(1), sort |-> sort]>>
       /\ inflight' = inflight + 1
       /\ mode' = Normal
       /\ panicked' = None]_vars

\* Enter has committed the typed text "x" under a sort order chosen before.
C3_Witness ==
  /\ Got("Input", Enter)
  /\ inpt = Some(<<"x">>)
  /\ searches = <<[query |-> <<"x">>, page |-> U32(1), sort |-> "NewlyAdded"]>>
  /\ mode = Normal

\* C4: a Results event is applied in every mode: it replaces the result set
\* by the event's records, sets selection to 0 if there are records and to
\* None if there are none, and leaves the mode with its buffer, tick and
\* picker selection, the query, the page, the sort order and the quit flag
\* unchanged, issuing no search request.
C4_ResultsAppliedInEveryMode ==
  [][\A tag \in {"Normal", "Input", "Sorting"} : \A r \in Responses :
       received' = Some(Matched(tag, Results(r))) =>
         /\ crates' = Some(r)
         /\ selection' = IF Len(r.crates) > 0 THEN Some(0) ELSE None
         /\ UNCHANGED <<mode, inpt, page, sort, quit>>
         /\ searches' = <<>>
         /\ inflight' = inflight - 1
         /\ panicked' = None]_vars

\* An empty response has arrived while the query editor held typed text.
C4_Witness ==
  /\ Got("Input", Results(Response(0)))
  /\ mode.tag = "Input" /\ mode.msg # <<>>
  /\ crates = Some(Response(0))
  /\ selection = None

\* C5: 'p'/'P' in Normal mode with page > 1 takes one from the page and
\* issues exactly one search request carrying the new page, whatever the
\* results; with page = 1 it changes nothing and issues no request.
C5_PreviousPage ==
  [][\A e \in Press({"p", "P"}) :
       received' = Some(Matched("Normal", e)) =>
         /\ LimbsLess(U32(1), page) =>
              /\ LimbsInc(page').val = page /\ ~LimbsInc(page').carry
              /\ searches' = <<[query |-> Unwrap(inpt), page |-> page', sort |-> sort]>>
              /\ inflight' = inflight + 1
              /\ UNCHANGED <<mode, inpt, sort, crates, selection, quit>>
         /\ page = U32(1) =>
              /\ UNCHANGED session
              /\ searches' = <<>>
              /\ UNCHANGED inflight
         /\ panicked' = None]_vars

\* 'P' has gone back from page 2 to page 1 over an empty result set.
C5_Witness ==
  /\ Got("Normal", Char("P"))
  /\ page = U32(1)
  /\ searches # <<>> /\ searches[1].page = U32(1)
  /\ crates = Some(Response(0))

\* C6: 'n'/'N' in Normal mode adds one to the page and issues exactly one
\* search request carrying the new page if and only if the result set is
\* present and non-empty; otherwise it changes nothing and issues no request.
C6_NextPage ==
  [][\A e \in Press({"n", "N"}) :
       received' = Some(Matched("Normal", e)) =>
         IF IsSome(crates) /\ Len(Unwrap(crates).crates) > 0
           THEN /\ page' = LimbsInc(page).val /\ ~LimbsInc(page).carry
                /\ searches' = <<[query |-> Unwrap(inpt), page |-> page', sort |-> sort]>>
                /\ inflight' = inflight + 1
                /\ UNCHANGED <<mode, inpt, sort, crates, selection, quit>>
                /\ panicked' = None
           ELSE /\ UNCHANGED session
                /\ searches' = <<>>
                /\ UNCHANGED inflight
                /\ panicked' = None]_vars

\* C7: in Sorting mode the options are the five fixed sort orders in their
\* fixed order and 0 <= selection < 5, so options[selection] is a valid index.
C7_PickerWithinOptions ==
  /\ mode.tag = "Sorting" =>
       /\ Len(mode.field.items) = 5
       /\ mode.field.items =
            <<"Relevance", "AllTimeDownload", "RecentDownload", "RecentUpdate",
              "NewlyAdded">>
       /\ 0 <= mode.field.selection
       /\ mode.field.selection < Len(mode.field.items)
  /\ panicked # Some("index out of bounds")

\* The picker was opened on the last option and 'k' has brought it to the first.
C7_Witness ==
  /\ \E e \in Press({"k", "K"}) : Got("Sorting", e)
  /\ mode.tag = "Sorting"
  /\ sort = "NewlyAdded"
  /\ mode.field.selection = 0

\* C8: in Sorting mode 'k'/'K' takes selection s to max(s - 1, 0) and
\* 'j'/'J' takes it to min(s + 1, 4); neither changes the committed sort
\* order, the page, the query or the results, nor issues a search.
C8_PickerMoves ==
  [][/\ \A e \in Press({"k", "K"}) :
          received' = Some(Matched("Sorting", e)) =>
            /\ mode'.tag = "Sorting"
            /\ mode'.field.items = mode.field.items
            /\ mode'.field.selection =
                 IF mode.field.selection - 1 > 0 THEN mode.field.selection - 1 ELSE 0
            /\ UNCHANGED <<inpt, page, sort, crates, selection, quit>>
            /\ searches' = <<>> /\ UNCHANGED inflight
     /\ \A e \in Press({"j", "J"}) :
          received' = Some(Matched("Sorting", e)) =>
            /\ mode'.tag = "Sorting"
            /\ mode'.field.items = mode.field.items
            /\ mode'.field.selection =
                 IF mode.field.selection + 1 < 4 THEN mode.field.selection + 1 ELSE 4
            /\ UNCHANGED <<inpt, page, sort, crates, selection, quit>>
            /\ searches' = <<>> /\ UNCHANGED inflight]_vars

\* The picker was opened on the first option and 'j' has brought it to the last.
C8_Witness ==
  /\ \E e \in Press({"j", "J"}) : Got("Sorting", e)
  /\ mode.tag = "Sorting"
  /\ sort = "Relevance"
  /\ mode.field.selection = 4

\* C9: Enter in Sorting mode sets the sort order to options[selection] and
\* the page to 1, keeps the query, issues exactly one search request carrying
\* (query, 1, the new sort order), and leaves the mode Normal.
C9_SortingEnterCommits ==
  [][received' = Some(Matched("Sorting", Enter)) =>
       /\ sort' = mode.field.items[mode.field.selection + 1]
       /\ page' = U32(1)
       /\ inpt' = inpt
       /\ searches' = <<[query |-> Unwrap(inpt), page |-> U32(1), sort |-> sort']>>
       /\ inflight' = inflight + 1
       /\ mode' = Normal
       /\ panicked' = None]_vars

\* Enter has committed another sort order for the query "x".
C9_Witness ==
  /\ Got("Sorting", Enter)
  /\ sort = "RecentUpdate"
  /\ searches = <<[query |-> <<"x">>, page |-> U32(1), sort |-> "RecentUpdate"]>>
  /\ mode = Normal

\* C10: Escape in Input mode returns to Normal and leaves the query, the
\* page, the sort order, the results and the selection unchanged, issuing no
\* search request; the buffer is gone, so a later 'f' opens the editor with
\* an empty buffer and tick 0.
C10_InputEscDiscards ==
  [][/\ received' = Some(Matched("Input", Esc)) =>
          /\ mode' = [tag |-> "Normal"]
          /\ UNCHANGED <<inpt, page, sort, crates, selection, quit>>
          /\ searches' = <<>> /\ UNCHANGED inflight
     /\ \A e \in Press({"f", "F"}) :
          received' = Some(Matched("Normal", e)) =>
            /\ mode' = [tag |-> "Input", msg |-> <<>>, ticks |-> <<0, 0, 0, 0>>]
            /\ UNCHANGED <<inpt, page, sort, crates, selection, quit>>
            /\ searches' = <<>> /\ UNCHANGED inflight]_vars

\* Escape has closed the editor over a session with a query, a second page,
\* a chosen sort order and a moved selection, all of them still in place.
C10_Witness ==
  /\ Got("Input", Esc)
  /\ mode = Normal
  /\ inpt = Some(<<"x">>)
  /\ page = U32(2)
  /\ sort = "RecentDownload"
  /\ selection = Some(1)

\* C11: 's'/'S' in Normal mode opens the sort picker on the five options with
\* the current sort order selected; Escape in the picker, wherever 'j'/'k'
\* have moved its selection, returns to Normal with the sort order, the page,
\* the query, the results and the result selection unchanged and without a
\* search request (so the picker opens on the same order again).
C11_PickerOpensOnCurrentAndCancels ==
  [][/\ \A e \in Press({"s", "S"}) :
          received' = Some(Matched("Normal", e)) =>
            /\ mode'.tag = "Sorting"
            /\ mode'.field.items =
                 <<"Relevance", "AllTimeDownload", "RecentDownload",
                   "RecentUpdate", "NewlyAdded">>
            /\ mode'.field.selection \in 0..4
            /\ mode'.field.items[mode'.field.selection + 1] = sort
            /\ UNCHANGED <<inpt, page, sort, crates, selection, quit>>
            /\ searches' = <<>> /\ UNCHANGED inflight
     /\ received' = Some(Matched("Sorting", Esc)) =>
          /\ mode' = [tag |-> "Normal"]
          /\ UNCHANGED <<inpt, page, sort, crates, selection, quit>>
          /\ searches' = <<>> /\ UNCHANGED inflight]_vars

\* The picker was opened a second time, after an earlier visit committed
\* RecentDownload, and it opens on that order.
C11_Witness ==
  /\ \E e \in Press({"s", "S"}) : Got("Normal", e)
  /\ sort = "RecentDownload"
  /\ mode = [tag |-> "Sorting",
             field |-> [selection |-> 2, items |-> SortItems]]

\* C12: a search request is issued by exactly four transitions -- 'n'/'N' in
\* Normal mode over a non-empty result set, 'p'/'P' in Normal mode on a page
\* above 1, Enter in Input mode, Enter in Sorting mode -- each issuing exactly
\* one request, which carries the query, the page and the sort order as the
\* transition leaves them; no other event, no receive timeout and not the
\* startup issues any.
C12_SearchRequests ==
  /\ searches = <<>>
  /\ [][LET issuing ==
              \/ /\ \E e \in Press({"n", "N"}) :
                      received' = Some(Matched("Normal", e))
                 /\ IsSome(crates) /\ Len(Unwrap(crates).crates) > 0
              \/ /\ \E e \in Press({"p", "P"}) :
                      received' = Some(Matched("Normal", e))
                 /\ LimbsLess(<<1, 0>>, page)
              \/ received' = Some(Matched("Input", Enter))
              \/ received' = Some(Matched("Sorting", Enter))
         IN  searches' =
               IF issuing
                 THEN <<[query |-> Unwrap(inpt'), page |-> page',
                         sort |-> sort']>>
                 ELSE <<>>]_vars

\* C13: only 'q'/'Q' received in Normal mode sets quit ('q' in Input mode is
\* appended to the buffer, 'q' in Sorting mode changes nothing), and nothing
\* clears it; the iteration that sets it is the loop's last: main goes on to
\* leave the terminal, and from then on receives no event, issues no search
\* and draws no frame.
C13_QuitEndsTheLoop ==
  [][/\ quit' # quit =>
          /\ quit'
          /\ \E e \in Press({"q", "Q"}) :
               received' = Some(Matched("Normal", e))
          /\ pc = "await_input" /\ pc' = "disable_raw_mode"
     /\ \A e \in Press({"q", "Q"}) :
          pc = "await_input" /\ received' = Some(Matched("Normal", e)) =>
            quit'
     /\ pc = "await_input" /\ received' = Some(Matched("Input", Char("q"))) =>
          /\ mode' = [mode EXCEPT !.msg = Append(mode.msg, "q")]
          /\ UNCHANGED quit
     /\ pc = "await_input" /\ received' = Some(Matched("Sorting", Char("q"))) =>
          UNCHANGED <<mode, quit>>
     /\ quit =>
          /\ pc \notin {"draw", "await_input"}
          /\ pc' \notin {"draw", "await_input"}
          /\ UNCHANGED <<session, received, searches, copies, inflight>>]_vars

\* 'Q' was received in Normal mode while a search was outstanding, and main
\* has returned with the search's results never received.
C13_Witness ==
  /\ Got("Normal", Char("Q"))
  /\ quit
  /\ inflight = 1
  /\ pc = "returned_ok"

\* C14: whenever main returns after the terminal was put into raw mode, the
\* alternate screen or mouse capture -- after a quit, or with the error of a
\* failed setup step, clear or draw -- the terminal is back as it was: raw
\* mode off, alternate screen left, mouse capture off.
C14_TerminalRestoredOnExit ==
  pc \in {"returned_ok", "returned_err"} =>
    ~term.raw /\ ~term.alt /\ ~term.mouse

\* C15: the engine is the one receiver of one first-in first-out channel that
\* the Input Monitor and the search client send to.  Numbering the events in
\* the order they are sent, each one received is the successor of the one
\* received before it -- none lost, none twice, none out of turn -- and the
\* events still in the channel follow in order.  An iteration of the loop
\* draws one frame and then receives at most one event; only that receive
\* changes the session.
C15_OneEventPerFrameInOrder ==
  [][/\ \A i \in 1..Len(queue) : queue[i].n = (handled + i) % (MaxQueue + 1)
     /\ sent = (handled + Len(queue)) % (MaxQueue + 1)
     /\ \/ queue' = queue
        \/ \E m \in {[ev |-> m.ev, n |-> (sent + 1) % (MaxQueue + 1)] :
                        m \in {[ev |-> k] : k \in ChannelKeys}
                                \cup {[ev |-> Results(Answer(pending[i], n))] :
                                        i \in 1..Len(pending), n \in PageSizes}} :
             queue' = queue \o <<m>> /\ pc' = pc /\ handled' = handled
        \/ /\ queue # <<>> /\ queue' = Tail(queue)
           /\ pc = "await_input"
           /\ handled' = Head(queue).n
           /\ received' = Some(Matched(mode.tag, Head(queue).ev))
     /\ handled' # handled =>
          /\ handled' = (handled + 1) % (MaxQueue + 1)
          /\ queue' = Tail(queue)
     /\ pc = "await_input" /\ pc' # pc =>
          pc' \in {"draw", "disable_raw_mode", "panicked"}
     /\ pc = "draw" =>
          /\ pc' \in {"draw", "await_input"}
          /\ UNCHANGED <<session, received, handled>>]_vars

\* Enter was pressed twice while the editor was on the screen; the first has
\* started a search, whose results were sent before the second Enter was
\* received, in Normal mode by then, and now wait in the channel.
C15_Witness ==
  /\ Got("Normal", Enter)
  /\ handled = 2
  /\ Len(queue) = 1
  /\ queue[1].ev.kind = "Results"
  /\ pc = "draw"

\* C16: a search is never cancelled and a result set never set aside.  A
\* request leaves the client only by having its Results event sent, a new
\* do_search only adds its request to those outstanding, and every Results
\* event received replaces the held result set, whichever request it answers.
C16_LastArrivalWins ==
  [][/\ handled' # handled /\ Head(queue).ev.kind = "Results" =>
          crates' = Some(Head(queue).ev.results)
     /\ handled' # handled =>
          /\ Len(pending') >= Len(pending)
          /\ SubSeq(pending', 1, Len(pending)) = pending
     /\ Len(pending') < Len(pending) =>
          /\ Len(queue') = Len(queue) + 1
          /\ queue'[Len(queue')].ev.kind = "Results"
          /\ \E i \in 1..Len(pending) :
               /\ queue'[Len(queue')].ev.results.request = pending[i]
               /\ pending' = SubSeq(pending, 1, i - 1)
                               \o SubSeq(pending, i + 1, Len(pending))]_vars

\* The searches for pages 2 and 1, issued in that order by 'n' and 'p', have
\* both ended, the results of page 2 arriving last: no search is
\* outstanding, the session is on page 1 and holds the records of page 2.
C16_Witness ==
  /\ inflight = 0 /\ pending = <<>> /\ queue = <<>>
  /\ page = <<1, 0>>
  /\ IsSome(crates)
  /\ Unwrap(crates).request.page = <<2, 0>>
  /\ Unwrap(crates).request # [query |-> Unwrap(inpt), page |-> page, sort |-> sort]

\* C17: while the query editor is open and no key is pressed, Tick events
\* keep arriving: an editor with an empty buffer and tick 0 does not stay so
\* for ever, whatever the Input Monitor's poll and the receive do on their
\* timeouts; and a Tick received in Input mode adds one to the tick counter,
\* wrapping, and changes nothing else.
C17_TicksKeepComing ==
  /\ (mode = [tag |-> "Input", msg |-> <<>>, ticks |-> <<0, 0, 0, 0>>])
       ~> (mode # [tag |-> "Input", msg |-> <<>>, ticks |-> <<0, 0, 0, 0>>])
  /\ [][pc = "await_input" /\ received' = Some(Matched("Input", Tick)) =>
          /\ mode' = [mode EXCEPT !.ticks = LimbsInc(mode.ticks).val]
          /\ UNCHANGED <<inpt, page, sort, crates, selection, quit>>
          /\ searches' = <<>>]_vars

\* C18 as claimed: the session starts with an empty query, page 1, the
\* relevance order, no result set, no selection, quit clear and Normal as
\* its mode; and until the first event is received no search is issued.
C18_StartsInNormal ==
  /\ inpt = <<<<>>>> /\ page = <<1, 0>> /\ sort = "Relevance"
  /\ crates = <<>> /\ selection = <<>> /\ quit = FALSE
  /\ mode = [tag |-> "Normal"]
  /\ searches = <<>> /\ inflight = 0
  /\ [][received = <<>> /\ received' = <<>> =>
          searches' = <<>> /\ inflight' = inflight]_vars

\* C18, amended: the session starts with an empty query, page 1, the
\* relevance order, no result set, no selection, quit clear and Input as its
\* mode, the buffer empty and the tick counter 0; and until the first event
\* is received no search is issued.
C18_StartsInInput ==
  /\ inpt = <<<<>>>> /\ page = <<1, 0>> /\ sort = "Relevance"
  /\ crates = <<>> /\ selection = <<>> /\ quit = FALSE
  /\ mode = [tag |-> "Input", msg |-> <<>>, ticks |-> <<0, 0, 0, 0>>]
  /\ searches = <<>> /\ inflight = 0
  /\ [][received = <<>> /\ received' = <<>> =>
          searches' = <<>> /\ inflight' = inflight]_vars

\* The terminal is set up, the first frame drawn, and main waits for its
\* first event with the editor open and nothing searched.
C18_Witness ==
  /\ pc = "await_input"
  /\ received = <<>>
  /\ mode = [tag |-> "Input", msg |-> <<>>, ticks |-> <<0, 0, 0, 0>>]
  /\ crates = <<>>
  /\ inflight = 0

\* C19: exactly one of the three modes is active and every event has a
\* transition.  The pairs the transition table does not list -- Normal mode
\* with Escape, Enter, Backspace, Tick or a letter that is no command;
\* Sorting mode with Backspace, Tick or a letter other than j/k -- and a
\* receive that times out leave the whole session as it was and issue no
\* search.  In Input mode every letter, the command letters of the other
\* modes included, is only appended to the buffer, and Backspace on an empty
\* buffer changes nothing.
C19_UnlistedPairsChangeNothing ==
  [][/\ mode.tag \in {"Normal", "Input", "Sorting"}
     /\ (~quit /\ panicked = <<>>) =>
          /\ mode.tag = "Normal" =>
               \A e \in {Esc, Enter, Backspace, Tick, Char("x")} :
                 ENABLED await_input(e)
          /\ mode.tag = "Sorting" =>
               \A e \in {Backspace, Tick, Char("q"), Char("x")} :
                 ENABLED await_input(e)
          /\ mode.tag = "Input" =>
               \A e \in {Backspace}
                        \cup {Char(c) : c \in IF Len(mode.msg) < MaxBuf
                                              THEN {"f", "q", "n", "p", "j",
                                                    "k", "s", "c", "x"}
                                              ELSE {}} :
                 ENABLED await_input(e)
          /\ ENABLED RecvTimeout
     /\ \A e \in {Esc, Enter, Backspace, Tick, Char("x")} :
          received' = Some(Matched("Normal", e)) =>
            /\ UNCHANGED <<mode, inpt, page, sort, crates, selection, quit>>
            /\ searches' = <<>> /\ UNCHANGED <<inflight, panicked>>
     /\ \A e \in {Backspace, Tick, Char("q"), Char("x")} :
          received' = Some(Matched("Sorting", e)) =>
            /\ UNCHANGED <<mode, inpt, page, sort, crates, selection, quit>>
            /\ searches' = <<>> /\ UNCHANGED <<inflight, panicked>>
     /\ received' = <<>> =>
          /\ UNCHANGED <<mode, inpt, page, sort, crates, selection, quit>>
          /\ searches' = <<>> /\ UNCHANGED <<inflight, panicked>>
     /\ \A c \in {"f", "q", "n", "p", "j", "k", "s", "c", "x"} :
          received' = Some(Matched("Input", Char(c))) =>
            /\ mode' = [tag |-> "Input", msg |-> mode.msg \o <<c>>,
                        ticks |-> mode.ticks]
            /\ UNCHANGED <<inpt, page, sort, crates, selection, quit>>
            /\ searches' = <<>> /\ UNCHANGED <<inflight, panicked>>
     /\ received' = Some(Matched("Input", Backspace)) /\ mode.msg = <<>> =>
          /\ UNCHANGED <<mode, inpt, page, sort, crates, selection, quit>>
          /\ searches' = <<>> /\ UNCHANGED <<inflight, panicked>>]_vars

\* 'n' was typed into the editor, opened over a session on its second page
\* with a chosen sort order: the letter is in the buffer, the page is kept.
C19_Witness ==
  /\ Got("Input", Char("n"))
  /\ mode.tag = "Input" /\ mode.msg = <<"n">>
  /\ page = <<2, 0>>
  /\ sort = "RecentDownload"
  /\ selection = <<1>>

\* C20: 'c'/'C' in Normal mode never changes the session and issues no
\* search.  Without a selection it does nothing; with one it hands the
\* selected record to the clipboard exactly once; and a clipboard that fails
\* neither changes the session nor ends it.
C20_CopyLeavesTheSessionAlone ==
  [][\A e \in Press({"c", "C"}) :
       received' = Some(Matched("Normal", e)) =>
         /\ UNCHANGED <<mode, inpt, page, sort, crates, selection, quit>>
         /\ searches' = <<>> /\ UNCHANGED inflight
         /\ panicked' = <<>>
         /\ selection = <<>> => copies' = <<>>
         /\ selection # <<>> => Len(copies') = 1
         /\ \A i \in 1..Len(copies') :
              copies'[i] = crates[1].crates[selection[1] + 1]]_vars

====
